---- MODULE Spec2Model ----
(***************************************************************************)
(* Stopwatch timing engine and persistence of src/script.js.               *)
(*                                                                         *)
(* Time is counted in whole clock units.  One page life is the span        *)
(* between the script's start-up code (lines 209-226) and the beforeunload *)
(* handler; the storage slot outlives it, the script's variables and the   *)
(* clock epoch do not.                                                     *)
(***************************************************************************)
EXTENDS Integers, Sequences, FiniteSets, TLC

VARIABLES
  phase,      \* "unloaded": no page is alive; "live": the script has started
  now,        \* reading of performance.now() in the live page
  startTime,  \* script.js:12
  elapsed,    \* script.js:13
  running,    \* script.js:14
  laps,       \* script.js:15
  rafId,      \* script.js:11 (Null when no frame is requested by the script)
  pending,    \* frame callbacks the browser still holds for this page
  slot,       \* localStorage[STORAGE_KEY]
  uncaught,   \* an exception has escaped the script
  badges,     \* rows of the lap table carrying the Best and Worst badge
  op,         \* the handler that ran last (start-up, teardown or a command)
  boots,      \* page loads so far
  ran         \* clock units observed to pass while running (SpecSP only)

vars == <<phase, now, startTime, elapsed, running, laps, rafId, pending, slot,
          uncaught, badges, op, boots, ran>>

----------------------------------------------------------------------------
(* Bounds of the model *)

MaxClock == 2
MaxJitter == 1
MaxLaps == 2
MaxBoots == 2
MaxClockSP == 5
MaxVal == 2
MaxList == 4

----------------------------------------------------------------------------
(* Values *)

Null == 0

\* No row carries a badge; -1 is bestWorstIndices' "none" (line 70).
NoBadges == [best |-> -1, worst |-> -1]

Absent == [kind |-> "absent"]
Corrupt == [kind |-> "corrupt"]
EmptyObject == [kind |-> "json", obj |-> [unknown |-> 0]]

\* The script's variables as one value, so that handlers compose.
M == [startTime |-> startTime, elapsed |-> elapsed, running |-> running,
      laps |-> laps, rafId |-> rafId, pending |-> pending, slot |-> slot,
      uncaught |-> uncaught, badges |-> badges]

\* Lines 11-15: the variables as declared, before any code has run.
Declared == [startTime |-> 0, elapsed |-> 0, running |-> FALSE,
             laps |-> <<>>, rafId |-> Null, pending |-> {}, slot |-> Absent,
             uncaught |-> FALSE, badges |-> NoBadges]

\* The script's variables hold m.
Holds(m) ==
  /\ startTime = m.startTime
  /\ elapsed = m.elapsed
  /\ running = m.running
  /\ laps = m.laps
  /\ rafId = m.rafId
  /\ pending = m.pending
  /\ slot = m.slot
  /\ uncaught = m.uncaught
  /\ badges = m.badges

\* The handler leaves the script's variables as m.
Install(m) ==
  /\ startTime' = m.startTime
  /\ elapsed' = m.elapsed
  /\ running' = m.running
  /\ laps' = m.laps
  /\ rafId' = m.rafId
  /\ pending' = m.pending
  /\ slot' = m.slot
  /\ uncaught' = m.uncaught
  /\ badges' = m.badges

----------------------------------------------------------------------------
(* Persistence *)

\* (mutant) the laps are left out of the saved document
JsonDoc_NoLaps(m) ==
  [kind |-> "json",
   obj |-> [startTime |-> m.startTime, elapsed |-> m.elapsed,
            running |-> m.running]]

\* JSON.stringify of the four fields, as the document JSON.parse gives back.
JsonDoc(m) ==
  [kind |-> "json",
   obj |-> [startTime |-> m.startTime, elapsed |-> m.elapsed,
            running |-> m.running, laps |-> m.laps]]

saveState(m) == [m EXCEPT !.slot = JsonDoc(m)]

\* s.key || 0
NumOrZero(obj, key) ==
  IF key \in DOMAIN obj THEN (IF obj[key] = 0 THEN 0 ELSE obj[key]) ELSE 0

\* (mutant) !s.key
Truthy_Negated(obj, key) == IF key \in DOMAIN obj THEN obj[key] # TRUE ELSE TRUE

\* !!s.key
Truthy(obj, key) == IF key \in DOMAIN obj THEN obj[key] = TRUE ELSE FALSE

\* Array.isArray(s.key) ? s.key : []
ArrayOrEmpty(obj, key) == IF key \in DOMAIN obj THEN obj[key] ELSE <<>>

\* JSON.parse(raw): throws on text that is not JSON.
JsonParse(raw) ==
  IF raw.kind = "json" THEN [threw |-> FALSE, obj |-> raw.obj]
  ELSE [threw |-> TRUE, obj |-> [unknown |-> 0]]

\* (mutant) no try/catch around JSON.parse
loadState_NoCatch(m) ==
  IF m.slot.kind = "absent" THEN m
  ELSE LET s == JsonParse(m.slot)
       IN IF s.threw THEN [m EXCEPT !.uncaught = TRUE]
          ELSE [m EXCEPT !.startTime = NumOrZero(s.obj, "startTime"),
                         !.elapsed = NumOrZero(s.obj, "elapsed"),
                         !.running = Truthy(s.obj, "running"),
                         !.laps = ArrayOrEmpty(s.obj, "laps")]

loadState(m) ==
  IF m.slot.kind = "absent" THEN m
  ELSE LET s == JsonParse(m.slot)
       IN IF s.threw THEN m   \* catch { /* ignore */ }
          ELSE [m EXCEPT !.startTime = NumOrZero(s.obj, "startTime"),
                         !.elapsed = NumOrZero(s.obj, "elapsed"),
                         !.running = Truthy(s.obj, "running"),
                         !.laps = ArrayOrEmpty(s.obj, "laps")]

----------------------------------------------------------------------------
(* Engine *)

\* (mutant) the operands of the subtraction are swapped
currentElapsed_Swapped(m, t) ==
  IF m.running THEN m.elapsed + (m.startTime - t) ELSE m.elapsed

\* (mutant) the running flag is not consulted
currentElapsed_Always(m, t) == m.elapsed + (t - m.startTime)

currentElapsed(m, t) ==
  IF m.running THEN m.elapsed + (t - m.startTime) ELSE m.elapsed

\* requestAnimationFrame hands out an id no callback still held carries.
FreshId(held) == CHOOSE i \in 1..(Cardinality(held) + 1) : i \notin held

tick(m) ==
  LET id == FreshId(m.pending)
  IN [m EXCEPT !.rafId = id, !.pending = m.pending \cup {id}]

\* (mutant) no early return when already running
start_NoGuard(m, t) ==
  tick(saveState([m EXCEPT !.startTime = t, !.running = TRUE]))

start(m, t) ==
  IF m.running THEN m
  ELSE tick(saveState([m EXCEPT !.startTime = t, !.running = TRUE]))

\* (mutant) no cancelAnimationFrame(rafId)
pause_NoCancel(m, t) ==
  IF ~m.running THEN m
  ELSE saveState([m EXCEPT !.elapsed = m.elapsed + (t - m.startTime),
                           !.running = FALSE,
                           !.rafId = Null])

\* (mutant) elapsed = instead of elapsed +=
pause_NoAccumulate(m, t) ==
  IF ~m.running THEN m
  ELSE saveState([m EXCEPT !.elapsed = t - m.startTime,
                           !.running = FALSE,
                           !.pending = m.pending \ {m.rafId},
                           !.rafId = Null])

pause(m, t) ==
  IF ~m.running THEN m
  ELSE saveState([m EXCEPT !.elapsed = m.elapsed + (t - m.startTime),
                           !.running = FALSE,
                           !.pending = m.pending \ {m.rafId},
                           !.rafId = Null])

\* (mutant) no pause() before zeroing
reset_NoPause(m, t) == saveState([m EXCEPT !.elapsed = 0, !.startTime = 0])

\* (mutant) reset also empties laps
reset_ClearsLaps(m, t) ==
  saveState([(IF m.running THEN pause(m, t) ELSE m)
               EXCEPT !.elapsed = 0, !.startTime = 0, !.laps = <<>>])

reset(m, t) ==
  saveState([(IF m.running THEN pause(m, t) ELSE m)
               EXCEPT !.elapsed = 0, !.startTime = 0])

\* list.map((cum, i) => i === 0 ? cum : cum - list[i-1])
Splits(list) ==
  [i \in 1..Len(list) |-> IF i = 1 THEN list[1] ELSE list[i] - list[i - 1]]

\* The forEach of lines 73-76 from (0-based) index i on.
RECURSIVE ScanSplits(_, _, _, _)
ScanSplits(splits, i, best, worst) ==
  IF i >= Len(splits) THEN [best |-> best, worst |-> worst]
  ELSE LET v == splits[i + 1]
           b == IF v < splits[best + 1] THEN i ELSE best
           w == IF v > splits[worst + 1] THEN i ELSE worst
       IN ScanSplits(splits, i + 1, b, w)

\* (mutant) <= and >= in place of < and >
RECURSIVE ScanSplits_NonStrict(_, _, _, _)
ScanSplits_NonStrict(splits, i, best, worst) ==
  IF i >= Len(splits) THEN [best |-> best, worst |-> worst]
  ELSE LET v == splits[i + 1]
           b == IF v <= splits[best + 1] THEN i ELSE best
           w == IF v >= splits[worst + 1] THEN i ELSE worst
       IN ScanSplits_NonStrict(splits, i + 1, b, w)

\* (mutant) the scan with non-strict comparisons
bestWorstIndices_LastWins(list) ==
  IF Len(list) < 2 THEN NoBadges
  ELSE ScanSplits_NonStrict(Splits(list), 0, 0, 0)

bestWorstIndices(list) ==
  IF Len(list) < 2 THEN NoBadges
  ELSE ScanSplits(Splits(list), 0, 0, 0)

\* Row i gets the Best badge when i === best, the Worst badge when
\* i === worst (lines 103-114); no rows, no badges (line 82).
renderLaps(m) ==
  IF Len(m.laps) = 0 THEN [m EXCEPT !.badges = NoBadges]
  ELSE [m EXCEPT !.badges = bestWorstIndices(m.laps)]

\* (mutant) no saveState() after the push
lap_NoSave(m, t) ==
  IF ~m.running THEN m
  ELSE renderLaps([m EXCEPT !.laps = Append(m.laps, currentElapsed(m, t))])

\* (mutant) pushes elapsed, not currentElapsed()
lap_PushesElapsed(m, t) ==
  IF ~m.running THEN m
  ELSE saveState(renderLaps([m EXCEPT !.laps = Append(m.laps, m.elapsed)]))

lap(m, t) ==
  IF ~m.running THEN m
  ELSE saveState(renderLaps(
         [m EXCEPT !.laps = Append(m.laps, currentElapsed(m, t))]))

\* (mutant) clearLaps also zeroes the timer
clearLaps_ZeroesTimer(m) ==
  saveState(renderLaps([m EXCEPT !.laps = <<>>, !.elapsed = 0,
                                 !.startTime = 0]))

clearLaps(m) == saveState(renderLaps([m EXCEPT !.laps = <<>>]))

\* Lines 210-223: t1, t2, t3 are the three readings of now() on lines 215-216.
startup(s, t1, t2, t3) ==
  LET m == loadState([Declared EXCEPT !.slot = s])
  IN IF m.uncaught THEN m   \* the script stops at the throwing statement
     ELSE IF m.running
       THEN LET drift == t1 - (IF m.startTime # 0 THEN m.startTime ELSE t2)
            IN renderLaps(tick([m EXCEPT !.startTime = t3 - drift]))
       ELSE renderLaps(m)

----------------------------------------------------------------------------
(* Events *)

Live == phase = "live"

Startup ==
  /\ phase = "unloaded"
  /\ boots < MaxBoots
  /\ \E t1 \in 0..MaxClock : \E d1, d2 \in 0..MaxJitter :
       /\ t1 + d1 + d2 <= MaxClock
       /\ Install(startup(slot, t1, t1 + d1, t1 + d1 + d2))
       /\ now' = t1 + d1 + d2
  /\ phase' = "live"
  /\ boots' = boots + 1
  /\ op' = "startup"
  /\ UNCHANGED ran

\* beforeunload (line 226); the page's frame callbacks die with it.
Teardown ==
  /\ Live
  /\ Install([saveState(M) EXCEPT !.pending = {}])
  /\ phase' = "unloaded"
  /\ op' = "teardown"
  /\ UNCHANGED <<now, boots, ran>>

\* Between page lives the host may clear the slot, or leave text in it that
\* is not JSON: what getItem and JSON.parse (lines 30-33) then meet.
SlotReplaced ==
  /\ phase = "unloaded"
  /\ slot.kind = "json"
  /\ slot' \in {Absent, Corrupt}
  /\ op' = "slotReplaced"
  /\ UNCHANGED <<phase, now, startTime, elapsed, running, laps, rafId, pending,
                 uncaught, badges, boots, ran>>

\* performance.now() never decreases within one page life.
Advance ==
  /\ Live
  /\ now < MaxClock
  /\ now' = now + 1
  /\ UNCHANGED <<phase, startTime, elapsed, running, laps, rafId, pending, slot,
                 uncaught, badges, op, boots, ran>>

Start ==
  /\ Live
  /\ Install(start(M, now))
  /\ op' = "start"
  /\ UNCHANGED <<phase, now, boots, ran>>

Pause ==
  /\ Live
  /\ Install(pause(M, now))
  /\ op' = "pause"
  /\ UNCHANGED <<phase, now, boots, ran>>

Reset ==
  /\ Live
  /\ Install(reset(M, now))
  /\ op' = "reset"
  /\ UNCHANGED <<phase, now, boots, ran>>

Lap ==
  /\ Live
  /\ Len(laps) < MaxLaps
  /\ Install(lap(M, now))
  /\ op' = "lap"
  /\ UNCHANGED <<phase, now, boots, ran>>

ClearLaps ==
  /\ Live
  /\ Install(clearLaps(M))
  /\ op' = "clearLaps"
  /\ UNCHANGED <<phase, now, boots, ran>>

\* The browser runs one held frame callback: tick (lines 132-135).
Frame ==
  /\ Live
  /\ \E id \in pending : Install(tick([M EXCEPT !.pending = pending \ {id}]))
  /\ UNCHANGED <<phase, now, op, boots, ran>>

Init ==
  /\ phase = "unloaded"
  /\ now = 0
  /\ startTime = 0
  /\ elapsed = 0
  /\ running = FALSE
  /\ laps = <<>>
  /\ rafId = Null
  /\ pending = {}
  /\ slot \in {Absent, Corrupt, EmptyObject}
  /\ uncaught = FALSE
  /\ badges = NoBadges
  /\ op = "none"
  /\ boots = 0
  /\ ran = 0

Next ==
  \/ Startup
  \/ Teardown
  \/ SlotReplaced
  \/ Advance
  \/ Start
  \/ Pause
  \/ Reset
  \/ Lap
  \/ ClearLaps
  \/ Frame

Spec == Init /\ [][Next]_vars

----------------------------------------------------------------------------
(* Start and pause alone, from a fresh page, with the running time observed *)

AdvanceSP ==
  /\ Live
  /\ now < MaxClockSP
  /\ now' = now + 1
  /\ ran' = (IF running THEN ran + 1 ELSE ran)
  /\ UNCHANGED <<phase, startTime, elapsed, running, laps, rafId, pending, slot,
                 uncaught, badges, op, boots>>

InitSP ==
  /\ phase = "live"
  /\ now \in 0..1
  /\ Holds(startup(Absent, now, now, now))
  /\ op = "startup"
  /\ boots = 1
  /\ ran = 0

NextSP ==
  \/ Start
  \/ Pause
  \/ AdvanceSP

SpecSP == InitSP /\ [][NextSP]_vars

----------------------------------------------------------------------------
(* Save then load, on every state over a bounded value set *)

TimerValues == 0..MaxVal

LapLists == UNION {[1..n -> TimerValues] : n \in 0..MaxLaps}

SaveSlot ==
  /\ op = "given"
  /\ Install(saveState(M))
  /\ op' = "save"
  /\ UNCHANGED <<phase, now, boots, ran>>

\* loadState in a page whose variables are as declared.
LoadSlot ==
  /\ op = "save"
  /\ Install(loadState([Declared EXCEPT !.slot = slot]))
  /\ op' = "load"
  /\ UNCHANGED <<phase, now, boots, ran>>

InitRT ==
  /\ phase = "live"
  /\ now = 0
  /\ startTime \in TimerValues
  /\ elapsed \in TimerValues
  /\ running \in BOOLEAN
  /\ laps \in LapLists
  /\ rafId = Null
  /\ pending = {}
  /\ slot = Absent
  /\ uncaught = FALSE
  /\ badges = NoBadges
  /\ op = "given"
  /\ boots = 1
  /\ ran = 0

NextRT ==
  \/ SaveSlot
  \/ LoadSlot

SpecRT == InitRT /\ [][NextRT]_vars

----------------------------------------------------------------------------
(* One page life: the commands, the clock and the frames, without reload *)

InitPage ==
  /\ phase = "live"
  /\ now \in 0..MaxClock
  /\ Holds(startup(Absent, now, now, now))
  /\ op = "startup"
  /\ boots = 1
  /\ ran = 0

NextPage ==
  \/ Advance
  \/ Start
  \/ Pause
  \/ Reset
  \/ Lap
  \/ ClearLaps
  \/ Frame

SpecPage == InitPage /\ [][NextPage]_vars

----------------------------------------------------------------------------
(* renderLaps on every lap list over a bounded value set *)

BWLists == UNION {[1..n -> TimerValues] : n \in 0..MaxList}

RenderLaps ==
  /\ op = "given"
  /\ Install(renderLaps(M))
  /\ op' = "renderLaps"
  /\ UNCHANGED <<phase, now, boots, ran>>

InitBW ==
  /\ phase = "live"
  /\ now = 0
  /\ laps \in BWLists
  /\ Holds([Declared EXCEPT !.laps = laps])
  /\ op = "given"
  /\ boots = 1
  /\ ran = 0

NextBW == RenderLaps

SpecBW == InitBW /\ [][NextBW]_vars

----------------------------------------------------------------------------
(* Claims *)

Engine == <<startTime, elapsed, running, laps>>

NonDecreasing(list) == \A i \in 2..Len(list) : list[i] >= list[i - 1]

\* Equal up to what the clock may advance while the start-up code runs.
Near(a, b) == (a - b) \in (0 - MaxJitter)..MaxJitter

\* C1: when the loaded state is running, start-up sets startTime to the new
\* page's now() and leaves elapsed as persisted, so that currentElapsed()
\* right after load is the persisted elapsed (up to the clock's advance during
\* start-up).
C1_ReconcileRestartsAtNow ==
  [][(Startup /\ running') =>
       /\ Near(startTime', now')
       /\ elapsed' = slot.obj.elapsed
       /\ Near(currentElapsed(M, now)', slot.obj.elapsed)]_vars

\* C2: for a timer running at teardown, currentElapsed() right after the next
\* start-up is currentElapsed() at the moment of teardown (up to the clock's
\* advance during start-up), whatever the new page's clock reads.
C2_ContinuesAcrossReload ==
  [][(Startup /\ op = "teardown" /\ running) =>
       Near(currentElapsed(M, now)', currentElapsed(M, now))]_vars

\* C3: laps is non-decreasing in every reachable state: every entry is at
\* least the entry before it.
C3_LapsNonDecreasing == NonDecreasing(laps)

\* C4: reset() returns with running false, elapsed 0, startTime 0 and
\* currentElapsed() 0, whatever the state it was called in.
C4_ResetZeroes ==
  [][Reset => /\ running' = FALSE
              /\ elapsed' = 0
              /\ startTime' = 0
              /\ currentElapsed(M, now)' = 0]_vars

C4_Witness ==
  /\ op = "reset"
  /\ now > 0
  /\ Len(laps) = 2
  /\ slot = JsonDoc(M)
  /\ currentElapsed(M, now) = 0

\* C5: from a fresh page, under start() and pause() alone, whenever the timer
\* is paused currentElapsed() is the total of the completed running intervals:
\* the clock units that passed while it was running.
C5_PausedIsSumOfRuns == (~running) => currentElapsed(M, now) = ran

C5_Witness ==
  /\ op = "pause"
  /\ ~running
  /\ startTime = 3
  /\ now = 5
  /\ ran = 3

\* C6: lap() while paused, start() while running and pause() while paused
\* change none of the script's variables, the slot included, and raise nothing.
C6_NoOps ==
  [][((Lap /\ ~running) \/ (Start /\ running) \/ (Pause /\ ~running)) =>
       UNCHANGED <<startTime, elapsed, running, laps, rafId, pending, slot,
                   uncaught>>]_vars

C6_Witness ==
  /\ op = "lap"
  /\ ~running
  /\ elapsed > 0
  /\ Len(laps) = 1
  /\ ~uncaught

\* C7: start-up on an absent slot, or on one that does not parse, raises
\* nothing and leaves running false, elapsed 0, startTime 0 and laps empty.
C7_LoadFailsSoft ==
  [][(Startup /\ slot.kind \in {"absent", "corrupt"}) =>
       /\ uncaught' = FALSE
       /\ running' = FALSE
       /\ elapsed' = 0
       /\ startTime' = 0
       /\ laps' = <<>>]_vars

C7_Witness ==
  /\ op = "startup"
  /\ boots = 2
  /\ slot = Corrupt
  /\ ~uncaught
  /\ Engine = <<0, 0, FALSE, <<>>>>

\* C8: saving a state and loading it into a fresh page gives back the same
\* startTime, elapsed, running and laps.
C8_RoundTrip == [][LoadSlot => Engine' = Engine]_vars

C8_Witness ==
  /\ op = "load"
  /\ running
  /\ startTime > 0
  /\ elapsed > 0
  /\ Len(laps) = 2
  /\ laps[1] > 0

\* C9: after a command that changed startTime, elapsed, running or laps, and
\* after teardown, the slot holds exactly the four values now in memory.
C9_SlotIsCurrent ==
  [][(((Start \/ Pause \/ Reset \/ Lap \/ ClearLaps) /\ Engine' # Engine)
        \/ Teardown) =>
       slot' = JsonDoc(M)']_vars

C9_Witness ==
  /\ op = "lap"
  /\ running
  /\ Len(laps) = 2
  /\ slot = JsonDoc(M)

\* C10: a reload (teardown, then start-up) leaves running, elapsed and laps as
\* they were at teardown, and for a timer paused at teardown currentElapsed()
\* too.
C10_PersistsAcrossReload ==
  [][(Startup /\ op = "teardown") =>
       /\ running' = running
       /\ elapsed' = elapsed
       /\ laps' = laps
       /\ (~running => currentElapsed(M, now)' = currentElapsed(M, now))]_vars

C10_Witness ==
  /\ op = "startup"
  /\ boots = 2
  /\ elapsed > 0
  /\ Len(laps) = 2
  /\ ~running
  /\ slot = JsonDoc(M)

\* C11: once pause(), or reset() on a running timer, has returned, no frame
\* callback is held any more, and a frame callback runs only while running.
C11_LoopStopsOnPause ==
  [][/\ (((Pause \/ Reset) /\ running) => (pending' = {} /\ rafId' = Null))
     /\ (Frame => running)]_vars

C11_Witness ==
  /\ op = "pause"
  /\ ~running
  /\ elapsed > 0
  /\ now > startTime + elapsed
  /\ pending = {}
  /\ rafId = Null

\* C12: across every step of one page life in which running stays true,
\* currentElapsed() is elapsed + (now - startTime) and does not decrease,
\* lap() and clearLaps() steps included.
C12_RunningIsMonotonic ==
  [][(Live /\ phase' = "live" /\ running /\ running') =>
       /\ currentElapsed(M, now)' = elapsed' + (now' - startTime')
       /\ currentElapsed(M, now)' >= currentElapsed(M, now)]_vars

C12_Witness ==
  /\ op = "clearLaps"
  /\ running
  /\ now > startTime
  /\ currentElapsed(M, now) = elapsed + (now - startTime)
  /\ currentElapsed(M, now) > elapsed

\* C13: whenever running is false currentElapsed() is elapsed, and while the
\* timer stays paused, with no reset(), currentElapsed() keeps its value
\* however far the clock advances.
C13_PausedIsStable ==
  [][/\ ((~running) => currentElapsed(M, now) = elapsed)
     /\ ((~running') => currentElapsed(M, now)' = elapsed')
     /\ ((Live /\ phase' = "live" /\ ~running /\ ~running' /\ ~Reset) =>
           currentElapsed(M, now)' = currentElapsed(M, now))]_vars

C13_Witness ==
  /\ op = "pause"
  /\ ~running
  /\ startTime = 0
  /\ elapsed = 1
  /\ now = 2
  /\ currentElapsed(M, now) = 1

\* C14: reset() leaves laps as it was, values and order, whether the timer
\* was running or paused.
C14_ResetKeepsLaps == [][Reset => laps' = laps]_vars

C14_Witness ==
  /\ op = "reset"
  /\ Len(laps) = 2
  /\ laps[1] > 0
  /\ laps[2] > laps[1]
  /\ elapsed = 0

\* C15: clearLaps() empties laps and leaves running, elapsed and startTime as
\* they were, so currentElapsed() is unaffected and a running timer keeps
\* running.
C15_ClearLapsFrame ==
  [][ClearLaps =>
       /\ laps' = <<>>
       /\ UNCHANGED <<running, elapsed, startTime>>
       /\ currentElapsed(M, now)' = currentElapsed(M, now)]_vars

C15_Witness ==
  /\ op = "clearLaps"
  /\ running
  /\ laps = <<>>
  /\ elapsed > 0
  /\ currentElapsed(M, now) > elapsed
  /\ pending = {rafId}

\* C16: lap() on a running timer appends the one entry
\* elapsed + (now - startTime) at the end of laps, keeps the earlier entries,
\* and leaves running, elapsed and startTime as they were.
C16_LapAppends ==
  [][(Lap /\ running) =>
       /\ laps' = Append(laps, elapsed + (now - startTime))
       /\ UNCHANGED <<running, elapsed, startTime>>]_vars

C16_Witness ==
  /\ op = "lap"
  /\ running
  /\ Len(laps) = 2
  /\ laps[2] = elapsed + (now - startTime)
  /\ laps[2] > laps[1]
  /\ elapsed > 0

\* C18: elapsed, currentElapsed() and every recorded lap are never negative,
\* also after a running state is reloaded into a page whose clock reads less
\* than the persisted startTime and the timer is then queried, lapped or
\* paused.
C18_NeverNegative ==
  Live =>
    /\ elapsed >= 0
    /\ currentElapsed(M, now) >= 0
    /\ \A i \in 1..Len(laps) : laps[i] >= 0

\* C19: between events of a live page a frame callback is requested exactly
\* when the timer is running, and at most one callback is ever held: the one
\* rafId names.
C19_OneLoopIffRunning ==
  Live =>
    /\ (rafId # Null) <=> running
    /\ Cardinality(pending) <= 1
    /\ pending = (IF running THEN {rafId} ELSE {})

C19_Witness ==
  /\ Live
  /\ op = "startup"
  /\ boots = 2
  /\ running
  /\ pending = {rafId}
  /\ rafId # Null
  /\ now > 0

\* C17: with fewer than 2 laps neither index is set (-1); with 2 or more,
\* where the first split is laps[0] and the others the successive differences,
\* best is the smallest index with the minimum split and worst the smallest
\* index with the maximum split (0-based, as in the code).
C17_BestWorstEarliestWins ==
  (op = "renderLaps") =>
    IF Len(laps) < 2 THEN badges.best = -1 /\ badges.worst = -1
    ELSE LET n == Len(laps)
             split(i) == IF i = 1 THEN laps[1] ELSE laps[i] - laps[i - 1]
             IsMin(i) == \A j \in 1..n : split(i) <= split(j)
             IsMax(i) == \A j \in 1..n : split(i) >= split(j)
         IN /\ badges.best + 1 \in 1..n
            /\ IsMin(badges.best + 1)
            /\ \A j \in 1..badges.best : ~IsMin(j)
            /\ badges.worst + 1 \in 1..n
            /\ IsMax(badges.worst + 1)
            /\ \A j \in 1..badges.worst : ~IsMax(j)

C17_Witness ==
  /\ op = "renderLaps"
  /\ laps = <<1, 2, 2, 2>>
  /\ badges = [best |-> 2, worst |-> 0]

====
